---- MODULE Spec2Model ----
(***************************************************************************)
(* Model of Atom-Kern-Teilchenphysik/1dSchroedingerHydrogen.py:            *)
(* the analytic hydrogen radial wavefunction R_{nl}(r) and the script that *)
(* plots it.                                                               *)
(*                                                                         *)
(* Real numbers are modelled exactly.  A finite float is the rational      *)
(* [num, den] it stands for (den > 0); a float that overflowed is Inf and  *)
(* an invalid one NaN, both marked by den = 0.  sqrt and exp have no       *)
(* rational value, so a sample of R is kept                                *)
(* as the three factors of line 33:                                        *)
(*     R = sqrt(norm2) * exp(e) * q       (norm2, e, q rational)           *)
(* and two samples are compared through these factors.  Rounding errors    *)
(* of finite floats are not modelled; the overflow of the float factorial  *)
(* is.                                                                     *)
(***************************************************************************)
EXTENDS Integers, Sequences, FiniteSets

VARIABLES pc, entry, console, args, r, R, prob_density, fig, raised, calls

vars == <<pc, entry, console, args, r, R, prob_density, fig, raised, calls>>

(***************************************************************************)
(* Bounds of the model.                                                    *)
(***************************************************************************)
MaxN == 4
MaxL == 4
MaxLen == 2

(***************************************************************************)
(* Program constants.                                                      *)
(***************************************************************************)
a0 == 1
NumPoints == 1000
\* scipy.special.factorial returns a float64: k! is finite up to k = 170 and
\* inf from k = 171 on.
FactorialMaxFinite == 170

None == "None"
ValueError == "ValueError"
NaN == [num |-> 0, den |-> 0]
Inf == [num |-> 1, den |-> 0]

(***************************************************************************)
(* Exact rational arithmetic.                                              *)
(***************************************************************************)
Abs(x) == IF x < 0 THEN -x ELSE x

RECURSIVE GCD(_, _)
GCD(a, b) == IF b = 0 THEN a ELSE GCD(b, a % b)

Rat(a, b) ==
    LET s == IF b < 0 THEN -1 ELSE 1
        g == GCD(Abs(a), Abs(b))
    IN  [num |-> (s * a) \div g, den |-> (s * b) \div g]

RAdd(x, y) ==
    LET g == GCD(x.den, y.den)
    IN  Rat(x.num * (y.den \div g) + y.num * (x.den \div g),
            (x.den \div g) * y.den)
RNeg(x) == [num |-> -x.num, den |-> x.den]
RSub(x, y) == RAdd(x, RNeg(y))
RMul(x, y) ==
    LET g1 == GCD(Abs(x.num), y.den)
        g2 == GCD(Abs(y.num), x.den)
    IN  Rat((x.num \div g1) * (y.num \div g2), (x.den \div g2) * (y.den \div g1))
RDiv(x, y) == RMul(x, Rat(y.den, y.num))
RSign(x) == IF x.num > 0 THEN 1 ELSE IF x.num < 0 THEN -1 ELSE 0
RLess(x, y) == RSign(RSub(x, y)) = -1
RInt(k) == [num |-> k, den |-> 1]

RECURSIVE RPow(_, _)
RPow(x, k) == IF k = 0 THEN RInt(1) ELSE RMul(x, RPow(x, k - 1))

IsFinite(x) == x.den # 0

(***************************************************************************)
(* float64 products and quotients of non-negative operands.                *)
(***************************************************************************)
FMul(x, y) ==
    IF x = NaN \/ y = NaN THEN NaN
    ELSE IF x = Inf
         THEN (IF y # Inf /\ y.num = 0 THEN NaN ELSE Inf)
    ELSE IF y = Inf
         THEN (IF x.num = 0 THEN NaN ELSE Inf)
    ELSE RMul(x, y)

FDiv(x, y) ==
    IF x = NaN \/ y = NaN THEN NaN
    ELSE IF y = Inf
         THEN (IF x = Inf THEN NaN ELSE RInt(0))
    ELSE IF x = Inf THEN Inf
    ELSE IF y.num = 0
         THEN (IF x.num = 0 THEN NaN ELSE Inf)
    ELSE RDiv(x, y)

RECURSIVE Fact(_)
Fact(k) == IF k <= 1 THEN 1 ELSE k * Fact(k - 1)

\* scipy.special.factorial(k): 0 for a negative argument, inf on overflow.
factorial(k) ==
    IF k < 0 THEN RInt(0)
    ELSE IF k > FactorialMaxFinite THEN Inf
    ELSE RInt(Fact(k))

(***************************************************************************)
(* scipy.special.genlaguerre(k, alpha): the polynomial object              *)
(* L_k^{(alpha)}, or ValueError for alpha <= -1 or a negative degree.      *)
(***************************************************************************)
\* genlaguerre without its check of the degree
genlaguerre_unchecked(k, alpha) ==
    IF alpha <= -1 THEN [raised |-> ValueError, n |-> k, alpha |-> alpha]
    ELSE [raised |-> None, n |-> k, alpha |-> alpha]

genlaguerre(k, alpha) ==
    IF alpha <= -1 THEN [raised |-> ValueError, n |-> k, alpha |-> alpha]
    ELSE IF k < 0 THEN [raised |-> ValueError, n |-> k, alpha |-> alpha]
    ELSE [raised |-> None, n |-> k, alpha |-> alpha]

RECURSIVE Binom(_, _)
Binom(a, b) == IF b = 0 THEN 1 ELSE (Binom(a - 1, b - 1) * a) \div b

\* Coefficients of L_k^{(alpha)}(x), lowest degree first:
\* the coefficient of x^i is (-1)^i * C(k + alpha, k - i) / i!.
LaguerreCoeffs(poly) ==
    [j \in 1..(poly.n + 1) |->
        Rat((IF (j - 1) % 2 = 0 THEN 1 ELSE -1)
                * Binom(poly.n + poly.alpha, poly.n - (j - 1)),
            Fact(j - 1))]

RECURSIVE Horner(_, _, _)
Horner(c, x, j) ==
    IF j = Len(c) THEN c[j]
    ELSE RAdd(c[j], RMul(x, Horner(c, x, j + 1)))

\* laguerre_poly(x)
PolyCall(poly, x) == Horner(LaguerreCoeffs(poly), x, 1)

(***************************************************************************)
(* radial_wavefunction(n, l, r)                                            *)
(***************************************************************************)
\* rho without the factor 2
Rho_r_over_n(n, x) == RDiv(x, RInt(n * a0))

\* line 20: rho = 2 * r / (n * a0)
Rho(n, x) == RDiv(RMul(RInt(2), x), RInt(n * a0))

\* the normalization without the factor 2n of the denominator
Norm2_without_2n(n, l) ==
    FDiv(FMul(RPow(Rat(2, n * a0), 3), factorial(n - l - 1)),
         factorial(n + l))

\* the normalization with (n+l+1)! for (n+l)!
Norm2_off_by_one(n, l) ==
    FDiv(FMul(RPow(Rat(2, n * a0), 3), factorial(n - l - 1)),
         FMul(RInt(2 * n), factorial(n + l + 1)))

\* lines 23-27, the argument of np.sqrt
Norm2(n, l) ==
    FDiv(FMul(RPow(Rat(2, n * a0), 3), factorial(n - l - 1)),
         FMul(RInt(2 * n), factorial(n + l)))

\* The statements of the function in order: rho and norm cannot raise for
\* n >= 1, genlaguerre can, and then nothing is returned.
NoValue ==
    [n |-> 0, l |-> 0, norm2 |-> NaN, rho |-> <<>>,
     laguerre_poly |-> [raised |-> None, n |-> 0, alpha |-> 0]]

radial_wavefunction(n, l, x) ==
    LET rho == [i \in DOMAIN x |-> Rho(n, x[i])]
        norm2 == Norm2(n, l)
        laguerre_poly == genlaguerre(n - l - 1, 2 * l + 1)
    IN  IF laguerre_poly.raised = ValueError
        THEN [raised |-> ValueError, returned |-> FALSE, value |-> NoValue]
        ELSE [raised |-> None, returned |-> TRUE,
              value |-> [n |-> n, l |-> l, norm2 |-> norm2, rho |-> rho,
                         laguerre_poly |-> laguerre_poly]]

\* line 33 at index i: R[i] = norm * exp(-rho/2) * rho**l * laguerre_poly(rho).
\* NaN times anything is NaN; 0.0 is the product with a zero factor.  norm is
\* never inf for l >= 0, as (n+l)! overflows whenever (n-l-1)! does.
Zero == [nan |-> FALSE, norm2 |-> RInt(0), e |-> RInt(0), q |-> RInt(0)]
NaNSample == [nan |-> TRUE, norm2 |-> NaN, e |-> RInt(0), q |-> RInt(0)]

Sample(w, i) ==
    IF w.norm2 = NaN THEN NaNSample
    ELSE LET q == RMul(RPow(w.rho[i], w.l), PolyCall(w.laguerre_poly, w.rho[i]))
         IN  IF w.norm2.num = 0 \/ q.num = 0 THEN Zero
             ELSE [nan |-> FALSE,
                   norm2 |-> w.norm2,
                   e |-> RDiv(RNeg(w.rho[i]), RInt(2)),
                   q |-> q]

\* v > 0, v < 0, v = 0 as the floats compare: every comparison with NaN is false.
Positive(v) == ~v.nan /\ RSign(v.q) = 1
Negative(v) == ~v.nan /\ RSign(v.q) = -1
IsZero(v) == ~v.nan /\ RSign(v.q) = 0

\* v = sqrt(s2) * p * exp(e) for rationals s2 > 0, p and e:
\* the signs agree, norm2 * q^2 = s2 * p^2 and the exponents agree.
SameValue(v, s2, p, e) ==
    /\ ~v.nan
    /\ RSign(v.q) = RSign(p)
    /\ p.num # 0 => /\ RPow(RDiv(v.q, p), 2) = RDiv(s2, v.norm2)
                    /\ v.e = e

\* v > w for two positive samples, where the factors decide it
Greater(v, w) ==
    /\ Positive(v) /\ Positive(w)
    /\ v.norm2 = w.norm2
    /\ ~RLess(v.q, w.q)
    /\ ~RLess(v.e, w.e)
    /\ (RLess(w.q, v.q) \/ RLess(w.e, v.e))

(***************************************************************************)
(* plot_single_state(n, l): the pieces                                     *)
(***************************************************************************)
\* np.linspace with endpoint=False
linspace_no_endpoint(start, stop, num) ==
    LET step == RDiv(RSub(stop, start), RInt(num))
    IN  [i \in 1..num |-> RAdd(RMul(RInt(i - 1), step), start)]

\* np.linspace(start, stop, num): step = (stop - start) / (num - 1),
\* y[i] = i * step + start, and the last point is set to stop.
linspace(start, stop, num) ==
    LET div == num - 1
        step == RDiv(RSub(stop, start), RInt(div))
    IN  [i \in 1..num |->
            IF i = num THEN stop
            ELSE RAdd(RMul(RInt(i - 1), step), start)]

\* line 40
r_max(n) == 30 * n * n

\* line 41
Grid(n) == linspace(Rat(1, 100), RInt(r_max(n)), NumPoints)

\* Polynomials are sequences of coefficients, lowest degree first.
RECURSIVE ConvSum(_, _, _, _)
ConvSum(p, q, k, i) ==
    IF i > Len(p) THEN RInt(0)
    ELSE RAdd(IF k - i + 1 \in DOMAIN q THEN RMul(p[i], q[k - i + 1]) ELSE RInt(0),
              ConvSum(p, q, k, i + 1))

PolyMul(p, q) == [k \in 1..(Len(p) + Len(q) - 1) |-> ConvSum(p, q, k, 1)]

\* x^m as a polynomial
Monomial(m) == [j \in 1..(m + 1) |-> IF j = m + 1 THEN RInt(1) ELSE RInt(0)]

\* line 45: prob_density = r**2 * R**2.  With r = n*a0*rho/2 this is
\*   norm2 * (n*a0/2)^2 * rho^2 * (rho^l * L(rho))^2 * exp(-rho)
\* at every grid point: coef * poly(rho) * exp(-rho).
Density(w) ==
    IF w.norm2 = NaN
    THEN [nan |-> TRUE, n |-> w.n, coef |-> NaN, poly |-> <<>>]
    ELSE LET f == PolyMul(Monomial(w.l), LaguerreCoeffs(w.laguerre_poly))
         IN  [nan |-> FALSE,
              n |-> w.n,
              coef |-> RMul(w.norm2, RPow(Rat(w.n * a0, 2), 2)),
              poly |-> PolyMul(Monomial(2), PolyMul(f, f))]

\* The integral of the density over r in (0, infinity):
\* dr = (n*a0/2) d rho and the integral of rho^j exp(-rho) is j!.
RECURSIVE GammaSum(_, _)
GammaSum(c, j) ==
    IF j > Len(c) THEN RInt(0)
    ELSE RAdd(RMul(c[j], RInt(Fact(j - 1))), GammaSum(c, j + 1))

Integral(d) ==
    IF d.nan THEN NaN
    ELSE RMul(RMul(d.coef, Rat(d.n * a0, 2)), GammaSum(d.poly, 1))

\* the energy with n for n**2
Energy_over_n(n) == RDiv(Rat(-136, 10), RInt(n))

\* line 68: energy = -13.6 / n**2
Energy(n) == RDiv(Rat(-136, 10), RInt(n * n))

\* f"{energy:.3f}": the nearest multiple of 0.001, as a number of thousandths.
\* The float is a rounded quotient, so an exact tie of the real value falls to
\* either side.
Floor(x) == x.num \div x.den

Format3f(x) ==
    LET t == RMul(x, RInt(1000))
        lo == Floor(t)
        twice == RSub(RMul(t, RInt(2)), RInt(2 * lo))
    IN  IF RLess(twice, RInt(1)) THEN {lo}
        ELSE IF RLess(RInt(1), twice) THEN {lo + 1}
        ELSE {lo, lo + 1}

(***************************************************************************)
(* The state machine                                                       *)
(***************************************************************************)
NoArgs == [n |-> 0, l |-> 0]
NoResult == [raised |-> None, returned |-> FALSE, value |-> NoValue]
NoDensity == [nan |-> FALSE, n |-> 0, coef |-> RInt(0), poly |-> <<>>]
NoFigure ==
    [created |-> 0, ax1 |-> <<>>, ax2 |-> <<>>,
     suptitle |-> <<>>, layout |-> FALSE, shown |-> FALSE]

Init ==
    /\ pc = "idle"
    /\ entry = "none"
    /\ console = <<>>
    /\ args = NoArgs
    /\ r = <<>>
    /\ R = NoResult
    /\ prob_density = NoDensity
    /\ fig = NoFigure
    /\ raised = None
    /\ calls = [plot_single_state |-> 0, radial_wavefunction |-> 0]

\* The arguments of the calls explored.
NVals == 1..MaxN
LVals == (-1)..MaxL
Radii == {Rat(1, 100), Rat(1, 2), RInt(1), RInt(2), RInt(4)}
RECURSIVE SeqsUpTo(_, _)
SeqsUpTo(S, k) ==
    IF k = 0 THEN {<<>>}
    ELSE LET shorter == SeqsUpTo(S, k - 1)
         IN  shorter \cup {Append(x, e) : x \in shorter, e \in S}
RArrays == SeqsUpTo(Radii, MaxLen) \ {<<>>}
\* The quantum numbers given to the evaluator: the small ones, and the first
\* n whose factorials (n-1)! and n! both overflow, with l = 0 and with l = n.
EvalArgs ==
    {[n |-> n, l |-> l] : n \in NVals, l \in LVals}
        \cup {[n |-> FactorialMaxFinite + 2, l |-> 0],
               [n |-> FactorialMaxFinite + 2, l |-> FactorialMaxFinite + 2]}

\* line 79: print("Plotting n=2, l=0 state...")
MainPrint ==
    /\ pc = "idle"
    /\ entry' = "main"
    /\ console' = Append(console, [text |-> "Plotting state", n |-> 2, l |-> 0])
    /\ pc' = "main_call"
    /\ UNCHANGED <<args, r, R, prob_density, fig, raised, calls>>

\* line 80: plot_single_state(n=2, l=1)
MainCall ==
    /\ pc = "main_call"
    /\ args' = [n |-> 2, l |-> 1]
    /\ calls' = [calls EXCEPT !.plot_single_state = @ + 1]
    /\ pc' = "plot_grid"
    /\ UNCHANGED <<entry, console, r, R, prob_density, fig, raised>>

\* plot_single_state(n, l) called by an importing program
CallPlot ==
    /\ pc = "idle"
    /\ \E n \in NVals, l \in LVals : args' = [n |-> n, l |-> l]
    /\ entry' = "plot_single_state"
    /\ calls' = [calls EXCEPT !.plot_single_state = @ + 1]
    /\ pc' = "plot_grid"
    /\ UNCHANGED <<console, r, R, prob_density, fig, raised>>

\* lines 40-41
PlotGrid ==
    /\ pc = "plot_grid"
    /\ r' = Grid(args.n)
    /\ pc' = "plot_eval"
    /\ UNCHANGED <<entry, console, args, R, prob_density, fig, raised, calls>>

\* plot_single_state with the figure created before the evaluator is called
PlotEvaluate_after_subplots ==
    /\ pc = "plot_eval"
    /\ LET res == radial_wavefunction(args.n, args.l, r)
       IN  /\ R' = res
           /\ raised' = res.raised
           /\ pc' = IF res.raised = None THEN "plot_density" ELSE "aborted"
    /\ fig' = [fig EXCEPT !.created = @ + 1]
    /\ calls' = [calls EXCEPT !.radial_wavefunction = @ + 1]
    /\ UNCHANGED <<entry, console, args, r, prob_density>>

\* line 44: an exception of the evaluator leaves plot_single_state at once
PlotEvaluate ==
    /\ pc = "plot_eval"
    /\ LET res == radial_wavefunction(args.n, args.l, r)
       IN  /\ R' = res
           /\ raised' = res.raised
           /\ pc' = IF res.raised = None THEN "plot_density" ELSE "aborted"
    /\ calls' = [calls EXCEPT !.radial_wavefunction = @ + 1]
    /\ UNCHANGED <<entry, console, args, r, prob_density, fig>>

\* line 45
PlotDensity ==
    /\ pc = "plot_density"
    /\ prob_density' = Density(R.value)
    /\ pc' = "plot_subplots"
    /\ UNCHANGED <<entry, console, args, r, R, fig, raised, calls>>

\* line 48
PlotSubplots ==
    /\ pc = "plot_subplots"
    /\ fig' = [fig EXCEPT !.created = @ + 1]
    /\ pc' = "plot_axes"
    /\ UNCHANGED <<entry, console, args, r, R, prob_density, raised, calls>>

\* lines 51-65
PlotAxes ==
    /\ pc = "plot_axes"
    /\ fig' = [fig EXCEPT
                 !.ax1 = <<[x |-> "r", y |-> "R", label |-> args],
                           [axhline |-> 0],
                           [title |-> "Radial Wavefunction"]>>,
                 !.ax2 = <<[x |-> "r", y |-> "prob_density", label |-> args],
                           [title |-> "Probability Density"]>>]
    /\ pc' = "plot_title"
    /\ UNCHANGED <<entry, console, args, r, R, prob_density, raised, calls>>

\* lines 68-70
PlotTitle ==
    /\ pc = "plot_title"
    /\ LET energy == Energy(args.n)
       IN  \E text \in Format3f(energy) :
               fig' = [fig EXCEPT !.suptitle =
                          <<[n |-> args.n, l |-> args.l,
                             energy |-> energy, shown_as |-> text]>>]
    /\ pc' = "plot_show"
    /\ UNCHANGED <<entry, console, args, r, R, prob_density, raised, calls>>

\* lines 72-73
PlotShow ==
    /\ pc = "plot_show"
    /\ fig' = [fig EXCEPT !.layout = TRUE, !.shown = TRUE]
    /\ pc' = "done"
    /\ UNCHANGED <<entry, console, args, r, R, prob_density, raised, calls>>

\* radial_wavefunction(n, l, r) called by an importing program
CallEvaluator ==
    /\ pc = "idle"
    /\ \E a \in EvalArgs, x \in RArrays :
           LET res == radial_wavefunction(a.n, a.l, x)
           IN  /\ args' = a
               /\ r' = x
               /\ R' = res
               /\ raised' = res.raised
               /\ pc' = IF res.raised = None THEN "returned" ELSE "aborted"
    /\ entry' = "radial_wavefunction"
    /\ calls' = [calls EXCEPT !.radial_wavefunction = @ + 1]
    /\ UNCHANGED <<console, prob_density, fig>>

Next ==
    \/ MainPrint
    \/ MainCall
    \/ CallPlot
    \/ PlotGrid
    \/ PlotEvaluate
    \/ PlotDensity
    \/ PlotSubplots
    \/ PlotAxes
    \/ PlotTitle
    \/ PlotShow
    \/ CallEvaluator

Spec == Init /\ [][Next]_vars

(***************************************************************************)
(* Properties                                                              *)
(***************************************************************************)
Plotting == entry \in {"main", "plot_single_state"}
Valid(a) == a.n >= 1 /\ 0 <= a.l /\ a.l < a.n

\* C1: radial_wavefunction(n, l, r) with l >= n raises an error and returns
\* no value, for every n >= 1 and every non-empty array r of positive radii.
C1_RaisesWhenLNotBelowN ==
    (calls.radial_wavefunction > 0 /\ args.n >= 1 /\ args.l >= args.n)
        => /\ raised = ValueError
           /\ R.raised = ValueError
           /\ ~R.returned
           /\ pc = "aborted"

C1_Witness ==
    /\ entry = "radial_wavefunction"
    /\ args = [n |-> 1, l |-> 1]
    /\ Len(r) = 2
    /\ raised = ValueError

\* C2: when the evaluator fails inside plot_single_state, the call aborts with
\* the evaluator's error, no figure is created or shown at any point of the
\* call, the evaluator has run exactly once and before any figure exists.
C2_NoFigureWhenEvaluatorFails ==
    /\ (Plotting /\ R.raised # None)
           => /\ raised = R.raised
              /\ pc = "aborted"
              /\ fig = NoFigure
              /\ calls.radial_wavefunction = 1
    /\ (Plotting /\ fig # NoFigure)
           => R.returned /\ calls.radial_wavefunction = 1

C2_Witness ==
    /\ entry = "plot_single_state"
    /\ args = [n |-> 2, l |-> 2]
    /\ pc = "aborted"
    /\ raised = ValueError
    /\ fig = NoFigure

\* C3: the grid built by plot_single_state has exactly 1000 points, starts at
\* 0.01, ends at 30*n^2, is strictly increasing and uniformly spaced, and
\* every point is positive.
C3_Grid ==
    (Plotting /\ pc \notin {"main_call", "plot_grid"})
        => /\ Len(r) = 1000
           /\ r[1] = Rat(1, 100)
           /\ r[Len(r)] = RInt(30 * args.n * args.n)
           /\ \A i \in 1..(Len(r) - 1) :
                  /\ RLess(r[i], r[i + 1])
                  /\ RSub(r[i + 1], r[i]) = RSub(r[2], r[1])
           /\ \A i \in 1..Len(r) : RLess(RInt(0), r[i])

C3_Witness ==
    /\ entry = "plot_single_state"
    /\ pc = "plot_eval"
    /\ args.n = 3
    /\ Len(r) = 1000
    /\ r[1000] = RInt(270)

\* The indices compared with i: every index of an array given by a caller, the
\* next index on the increasing grid of plot_single_state.
Later(i) == IF Plotting THEN {i + 1} \cap DOMAIN r ELSE DOMAIN r

\* C4: for n = 1, l = 0 the evaluator returns R(r) = 2 * exp(-r): the
\* normalization constant is 2, rho = 2r, the power term and the Laguerre
\* factor are 1, and R is positive and strictly decreasing in r.
C4_GroundState ==
    (R.returned /\ args = [n |-> 1, l |-> 0])
        => LET v == [i \in DOMAIN r |-> Sample(R.value, i)]
           IN  /\ R.value.norm2 = RInt(4)
               /\ \A i \in DOMAIN r :
                      /\ R.value.rho[i] = RMul(RInt(2), r[i])
                      /\ RPow(R.value.rho[i], args.l) = RInt(1)
                      /\ PolyCall(R.value.laguerre_poly, R.value.rho[i]) = RInt(1)
                      /\ SameValue(v[i], RInt(4), RInt(1), RNeg(r[i]))
                      /\ Positive(v[i])
               /\ \A i \in DOMAIN r : \A j \in Later(i) :
                      RLess(r[i], r[j]) => Greater(v[i], v[j])

C4_Witness ==
    /\ entry = "radial_wavefunction"
    /\ args = [n |-> 1, l |-> 0]
    /\ r = <<RInt(1), RInt(2)>>
    /\ R.returned
    /\ Greater(Sample(R.value, 1), Sample(R.value, 2))

\* C5: for n = 2, l = 0 the evaluator returns
\* R(r) = (1/sqrt(2)) * (1 - r/2) * exp(-r/2): positive below r = 2, zero at
\* r = 2, negative above, so R(0.01) > 0 and R(4) < 0.
C5_State20 ==
    (R.returned /\ args = [n |-> 2, l |-> 0])
        => \A i \in DOMAIN r :
              LET v == Sample(R.value, i)
              IN  /\ SameValue(v, Rat(1, 2),
                               RSub(RInt(1), RDiv(r[i], RInt(2))),
                               RNeg(RDiv(r[i], RInt(2))))
                  /\ RLess(r[i], RInt(2)) => Positive(v)
                  /\ r[i] = RInt(2) => IsZero(v)
                  /\ RLess(RInt(2), r[i]) => Negative(v)

C5_Witness ==
    /\ entry = "radial_wavefunction"
    /\ args = [n |-> 2, l |-> 0]
    /\ r = <<Rat(1, 100), RInt(4)>>
    /\ R.returned
    /\ Positive(Sample(R.value, 1))
    /\ Negative(Sample(R.value, 2))

\* C6: for n = 2, l = 1 the evaluator returns
\* R(r) = (1/(2*sqrt(6))) * r * exp(-r/2), positive for every r > 0.
C6_State21 ==
    (R.returned /\ args = [n |-> 2, l |-> 1])
        => \A i \in DOMAIN r :
              LET v == Sample(R.value, i)
              IN  /\ SameValue(v, Rat(1, 24), r[i], RNeg(RDiv(r[i], RInt(2))))
                  /\ Positive(v)

C6_Witness ==
    /\ entry = "radial_wavefunction"
    /\ args = [n |-> 2, l |-> 1]
    /\ r = <<RInt(2)>>
    /\ R.returned
    /\ Sample(R.value, 1) =
           [nan |-> FALSE, norm2 |-> Rat(1, 24), e |-> RInt(-1), q |-> RInt(2)]

\* C7: the energy in the figure title is -13.6/n^2 eV, a function of n alone,
\* shown rounded to 3 decimal places: -13.600 for n = 1, -3.400 for n = 2,
\* -0.850 for n = 4.
C7_Energy ==
    (Plotting /\ fig.suptitle # <<>>)
        => LET t == fig.suptitle[1]
               off == RSub(RMul(t.energy, RInt(1000)), RInt(t.shown_as))
           IN  /\ t.n = args.n /\ t.l = args.l
               /\ t.energy.num * 10 * args.n * args.n = -136 * t.energy.den
               /\ ~RLess(Rat(1, 2), off) /\ ~RLess(off, Rat(-1, 2))
               /\ args.n = 1 => t.shown_as = -13600
               /\ args.n = 2 => t.shown_as = -3400
               /\ args.n = 4 => t.shown_as = -850

C7_Witness ==
    /\ entry = "plot_single_state"
    /\ pc = "done"
    /\ args = [n |-> 4, l |-> 2]
    /\ fig.shown
    /\ fig.suptitle[1].shown_as = -850

\* C8: for every valid (n, l) the probability density r^2 R(r)^2 computed
\* from the evaluator's result integrates to 1 over r in (0, infinity).
C8_Normalized ==
    (R.returned /\ Valid(args))
        => Integral(Density(R.value)) = RInt(1)

\* The normalization where no factorial overflows (n + l <= 170).
NormalizedWhileFinite ==
    (R.returned /\ Valid(args) /\ args.n + args.l <= FactorialMaxFinite)
        => Integral(Density(R.value)) = RInt(1)

\* C9: for every n >= 1 with l = 0 the evaluator's result is strictly
\* positive at the first grid point r = 0.01.
C9_PositiveAtFirstPoint ==
    (R.returned /\ args.n >= 1 /\ args.l = 0 /\ r[1] = Rat(1, 100))
        => Positive(Sample(R.value, 1))

\* The sign at r = 0.01 where no factorial overflows (n <= 170).
PositiveAtFirstPointWhileFinite ==
    (R.returned /\ args.n >= 1 /\ args.l = 0 /\ r[1] = Rat(1, 100)
                /\ args.n <= FactorialMaxFinite)
        => Positive(Sample(R.value, 1))

\* C10: run as the main program, the script plots the state it announced:
\* plot_single_state is called exactly once, after the message, with the n
\* and l of the message.
C10_PlotsAnnouncedState ==
    (entry = "main" /\ calls.plot_single_state > 0)
        => /\ calls.plot_single_state = 1
           /\ Len(console) = 1
           /\ args.n = console[1].n
           /\ args.l = console[1].l

====
